---- MODULE Spec2Model ----
(***************************************************************************)
(* A model of pyspeedtest.py: the latency prober (SpeedTest.ping), the     *)
(* server selector (SpeedTest.chooseserver), the lazily resolved host, the *)
(* threaded download/upload batches and perform_speedtest.                 *)
(*                                                                         *)
(* Times are integers (seconds for one round trip), byte counts are        *)
(* integers, coordinates are integers on a small grid.                     *)
(***************************************************************************)
EXTENDS Integers, Sequences, FiniteSets

(***************************************************************************)
(* Bounds of the model.                                                    *)
(***************************************************************************)
MaxSample == 3
MaxServers == 11
MaxRuns == 3
RunMaxServers == 2

(***************************************************************************)
(* Values of the program.                                                  *)
(***************************************************************************)
None == "None"
NoLocation == <<>>      \* match is None, line 222
NoValue == <<>>         \* no number was returned
Falsy(x) == x = None \/ x = ""

Hosts == {"h1", "h2"}

RANGE_PING == 5
PING_FACTOR == 250
TOP_N == 10
NO_LATENCY == 999999

RECURSIVE SeqSum(_)
SeqSum(s) == IF s = <<>> THEN 0 ELSE Head(s) + SeqSum(Tail(s))

SeqMax(s) == CHOOSE m \in {s[i] : i \in DOMAIN s} : \A i \in DOMAIN s : s[i] <= m

Contains(s, x) == \E i \in DOMAIN s : s[i] = x

Min2(a, b) == IF a < b THEN a ELSE b

(***************************************************************************)
(* list.remove(x): drops the first element equal to x.                     *)
(***************************************************************************)
ListRemoveAll(s, x) == SelectSeq(s, LAMBDA e : e # x)

ListRemove(s, x) ==
    LET i == CHOOSE k \in DOMAIN s : s[k] = x /\ \A j \in 1..(k - 1) : s[j] # x
    IN  SubSeq(s, 1, i - 1) \o SubSeq(s, i + 1, Len(s))

(***************************************************************************)
(* SpeedTest.ping, lines 174-190: the body of the sampling loop and the    *)
(* aggregation after it.                                                   *)
(***************************************************************************)
PingWorst(w, total_ms) == IF total_ms > w THEN total_ms ELSE w

PingTotal(t, w) == SeqSum(ListRemove(t, w)) * PING_FACTOR

RECURSIVE PingLoopWorst(_)
PingLoopWorst(s) ==
    IF s = <<>> THEN 0
    ELSE PingWorst(PingLoopWorst(SubSeq(s, 1, Len(s) - 1)), s[Len(s)])

\* times.remove(worst) raises ValueError when worst is no element of times
PingRaises(s) == ~Contains(s, PingLoopWorst(s))

\* the value ping returns for the samples s
PingValue(s) == PingTotal(s, PingLoopWorst(s))

(***************************************************************************)
(* URLs are records of scheme, host and path; Python compares the strings, *)
(* and on the URLs of the model that is the order of (scheme, host, path). *)
(***************************************************************************)
Url(scheme, h, path) == [scheme |-> scheme, host |-> h, path |-> path]

UPLOAD_PATH == "/speedtest/upload.php"

StrOrder == <<"", "/speedtest/upload.aspx", "/speedtest/upload.php",
              "h1", "h2", "http", "https">>

StrRank(s) == CHOOSE i \in DOMAIN StrOrder : StrOrder[i] = s

UrlLess(a, b) ==
    \/ StrRank(a.scheme) < StrRank(b.scheme)
    \/ a.scheme = b.scheme /\ StrRank(a.host) < StrRank(b.host)
    \/ a.scheme = b.scheme /\ a.host = b.host /\ StrRank(a.path) < StrRank(b.path)

\* tuple comparison of (distance, url), as bisect.insort_left applies it
TupleLess(a, b) == a[1] < b[1] \/ (a[1] = b[1] /\ UrlLess(a[2], b[2]))

\* re.search(r'http://([^/]+)/speedtest/upload\.php', url): the host, or None
MatchHost(url) ==
    IF url.scheme = "http" /\ url.host # "" /\ url.path = UPLOAD_PATH
    THEN url.host ELSE None

(***************************************************************************)
(* SpeedTest.calc_distance.  The code returns sqrt(dlat^2 + dlon^2); the   *)
(* model keeps the square, which orders every pair of grid points the same *)
(* way (sqrt is strictly increasing on them).                              *)
(***************************************************************************)
calc_distance(loc, server) ==
    (server[2] - loc[2]) * (server[2] - loc[2])
        + (server[3] - loc[3]) * (server[3] - loc[3])

(***************************************************************************)
(* bisect.insort_left(a, x): binary search for the leftmost position, then *)
(* a.insert.  lo and hi are 0-based as in the library.                     *)
(***************************************************************************)
RECURSIVE BisectLeft(_, _, _, _)
BisectLeft(a, x, lo, hi) ==
    IF lo < hi
    THEN LET mid == (lo + hi) \div 2
         IN  IF TupleLess(a[mid + 1], x)
             THEN BisectLeft(a, x, mid + 1, hi)
             ELSE BisectLeft(a, x, lo, mid)
    ELSE lo

\* an insertion at the end, whatever the order
InsortAppend(a, x) == Append(a, x)

InsortLeft(a, x) ==
    LET lo == BisectLeft(a, x, 0, Len(a))
    IN  SubSeq(a, 1, lo) \o <<x>> \o SubSeq(a, lo + 1, Len(a))

\* sorted_server_list[:10]
SliceAll(a) == a

TopSlice(a) == SubSeq(a, 1, Min2(TOP_N, Len(a)))

\* line 253: the probed latency replaces the best one
Better(latency, best) == latency < best[1]

\* line 249-250: continue with the next candidate of the slice
BreakLoop(i, n) == n + 1

ContinueLoop(i, n) == i + 1

(***************************************************************************)
(* The directory's answers and the network.                                *)
(***************************************************************************)
Locations == {<<"10.0.0.1", 0, 0>>}

ServerPool ==
    { <<Url("http", "h1", UPLOAD_PATH), 0, 1>>,
      <<Url("http", "h2", UPLOAD_PATH), 0, 0>>,
      <<Url("http", "h2", UPLOAD_PATH), 1, 1>>,
      <<Url("https", "h1", UPLOAD_PATH), 0, 0>>,
      <<Url("http", "h2", "/speedtest/upload.aspx"), 1, 0>> }

\* five round trips of one host, in seconds
SampleRows == { <<1, 1, 1, 1, 1>>, <<2, 1, 3, 1, 1>>, <<1000, 1000, 1000, 1000, 1000>> }

NetProfiles == [Hosts -> SampleRows]

VARIABLES
    host,                \* SpeedTest._host
    net,                 \* the round-trip times each host will show
    p_pc, p_server, p_conn, times, worst, p_result, p_error,
    cs_pc, dir_conn, location, list_requested, sorted_server_list,
    idx, best_server, probe_conn, pinged, probed, cs_result, cs_error,
    selections,          \* how many times chooseserver was called
    runs,                \* SpeedTest.runs
    host_reads,          \* the values the host property has returned
    b_pc, b_kind, b_server, connections, timer, elapsed_ms, item, threads, join_idx,
    total, b_result, b_error,
    started, ended,      \* per item: workers started, workers terminated
    reported, uniform,   \* what the workers' responses carried
    ps_pc, mode, pinned, stats, meth, ps_error, called,
    main_pc, exit_status, logged,
    pr_pc, speed, unit, pr_result, pr_error

engineVars == <<host, net, selections, runs, host_reads>>
batchVars == <<b_pc, b_kind, b_server, connections, timer, elapsed_ms, item, threads,
               join_idx, total, b_result, b_error, started, ended, reported, uniform>>
prettyVars == <<pr_pc, speed, unit, pr_result, pr_error>>
mainVars == <<main_pc, exit_status, logged, prettyVars>>
runVars == <<ps_pc, mode, pinned, stats, meth, ps_error, called, mainVars>>
pingVars == <<p_pc, p_server, p_conn, times, worst, p_result, p_error>>
csVars == <<cs_pc, dir_conn, location, list_requested, sorted_server_list,
            idx, best_server, probe_conn, pinged, probed, cs_result, cs_error>>
vars == <<engineVars, pingVars, csVars, batchVars, runVars>>

(***************************************************************************)
(* The values the variables have while their operation is not running.     *)
(***************************************************************************)
PingIdle ==
    /\ p_pc = "idle" /\ p_server = None /\ p_conn = "none"
    /\ times = <<>> /\ worst = 0 /\ p_result = NoValue /\ p_error = None

CsIdle ==
    /\ cs_pc = "idle" /\ dir_conn = "none" /\ location = NoLocation
    /\ list_requested = FALSE /\ sorted_server_list = <<>>
    /\ idx = 0 /\ best_server = <<NO_LATENCY, "">> /\ probe_conn = "none"
    /\ pinged = <<>> /\ probed = <<>> /\ cs_result = None /\ cs_error = None

\* a call of chooseserver: its locals are fresh
CsCall ==
    /\ cs_pc' = "start" /\ dir_conn' = "none" /\ location' = NoLocation
    /\ list_requested' = FALSE /\ sorted_server_list' = <<>>
    /\ idx' = 0 /\ best_server' = <<NO_LATENCY, "">> /\ probe_conn' = "none"
    /\ pinged' = <<>> /\ probed' = <<>> /\ cs_result' = None /\ cs_error' = None
    /\ selections' = selections + 1

\* chooseserver has returned or raised: its locals are gone
CsLeave ==
    /\ cs_pc' = "idle" /\ dir_conn' = "none" /\ location' = NoLocation
    /\ list_requested' = FALSE /\ sorted_server_list' = <<>>
    /\ idx' = 0 /\ best_server' = <<NO_LATENCY, "">> /\ probe_conn' = "none"
    /\ pinged' = <<>> /\ probed' = <<>> /\ cs_result' = None /\ cs_error' = None

BatchIdle ==
    /\ b_pc = "idle" /\ b_kind = None /\ b_server = None /\ connections = <<>>
    /\ timer = "unset" /\ elapsed_ms = 0 /\ item = 0 /\ threads = <<>>
    /\ join_idx = 0 /\ total = 0 /\ b_result = NoValue /\ b_error = None
    /\ started = <<>> /\ ended = <<>> /\ reported = 0 /\ uniform = TRUE

\* pretty_speed is not being called
PrettyIdle ==
    /\ pr_pc = "idle" /\ speed = [whole |-> <<0>>, frac |-> <<>>] /\ unit = 0
    /\ pr_result = NoValue /\ pr_error = None

\* main and perform_speedtest are not being called
PerformIdle ==
    /\ ps_pc = "idle" /\ mode = 0 /\ pinned = None /\ stats = <<>> /\ meth = 0 /\ ps_error = None
    /\ called = <<>> /\ main_pc = "idle" /\ exit_status = NoValue /\ logged = None

RunIdle == PerformIdle /\ PrettyIdle

(***************************************************************************)
(* SpeedTest.chooseserver                                                  *)
(***************************************************************************)
\* line 208: connect('www.speedtest.net')
CsConnect ==
    /\ cs_pc = "start"
    /\ dir_conn' = "open"
    /\ cs_pc' = "config"
    /\ UNCHANGED <<location, list_requested, sorted_server_list, idx, best_server,
                   probe_conn, pinged, probed, cs_result, cs_error>>
    /\ UNCHANGED <<engineVars, pingVars, batchVars, runVars>>

\* line 79-80: connect raises
CsConnectFail ==
    /\ cs_pc = "start"
    /\ cs_pc' = "raised"
    /\ cs_error' = "connect"
    /\ UNCHANGED <<dir_conn, location, list_requested, sorted_server_list, idx,
                   best_server, probe_conn, pinged, probed, cs_result>>
    /\ UNCHANGED <<engineVars, pingVars, batchVars, runVars>>

\* lines 215-227: the config request; without the client tag: return None
CsConfig ==
    /\ cs_pc = "config"
    /\ \E loc \in Locations \cup {NoLocation} :
          /\ location' = loc
          /\ IF loc = NoLocation
             THEN cs_pc' = "returned" /\ cs_result' = None
             ELSE cs_pc' = "servers" /\ UNCHANGED cs_result
    /\ UNCHANGED <<dir_conn, list_requested, sorted_server_list, idx, best_server,
                   probe_conn, pinged, probed, cs_error>>
    /\ UNCHANGED <<engineVars, pingVars, batchVars, runVars>>

\* lines 228-236: the server list request
CsServers ==
    /\ cs_pc = "servers"
    /\ list_requested' = TRUE
    /\ sorted_server_list' = <<>>
    /\ cs_pc' = "insert"
    /\ UNCHANGED <<dir_conn, location, idx, best_server, probe_conn, pinged, probed,
                   cs_result, cs_error>>
    /\ UNCHANGED <<engineVars, pingVars, batchVars, runVars>>

\* lines 237-243: one server of the reply, of at most `limit`
CsInsert(limit) ==
    /\ cs_pc = "insert"
    /\ Len(sorted_server_list) < limit
    /\ \E server \in ServerPool :
          sorted_server_list' =
              InsortLeft(sorted_server_list,
                         <<calc_distance(location, server), server[1]>>)
    /\ UNCHANGED <<cs_pc, dir_conn, location, list_requested, idx, best_server,
                   probe_conn, pinged, probed, cs_result, cs_error>>
    /\ UNCHANGED <<engineVars, pingVars, batchVars, runVars>>

\* line 244: the reply is exhausted
CsRanked ==
    /\ cs_pc = "insert"
    /\ best_server' = <<NO_LATENCY, "">>
    /\ idx' = 1
    /\ cs_pc' = "probe"
    /\ UNCHANGED <<dir_conn, location, list_requested, sorted_server_list,
                   probe_conn, pinged, probed, cs_result, cs_error>>
    /\ UNCHANGED <<engineVars, pingVars, batchVars, runVars>>

\* lines 245-250: a candidate whose URL does not match
CsSkip ==
    /\ cs_pc = "probe"
    /\ idx <= Len(TopSlice(sorted_server_list))
    /\ MatchHost(TopSlice(sorted_server_list)[idx][2]) = None
    /\ idx' = ContinueLoop(idx, Len(TopSlice(sorted_server_list)))
    /\ UNCHANGED <<cs_pc, dir_conn, location, list_requested, sorted_server_list,
                   best_server, probe_conn, pinged, probed, cs_result, cs_error>>
    /\ UNCHANGED <<engineVars, pingVars, batchVars, runVars>>

\* lines 251-252, 173: ping(server_host) is called and connects
CsProbeConnect ==
    /\ cs_pc = "probe"
    /\ idx <= Len(TopSlice(sorted_server_list))
    /\ MatchHost(TopSlice(sorted_server_list)[idx][2]) # None
    /\ pinged' = Append(pinged, idx)
    /\ probe_conn' = "open"
    /\ cs_pc' = "ping"
    /\ UNCHANGED <<dir_conn, location, list_requested, sorted_server_list, idx,
                   best_server, probed, cs_result, cs_error>>
    /\ UNCHANGED <<engineVars, pingVars, batchVars, runVars>>

\* lines 251-252, 173, 79-80: ping(server_host) is called and connect raises
CsProbeConnectFail ==
    /\ cs_pc = "probe"
    /\ idx <= Len(TopSlice(sorted_server_list))
    /\ MatchHost(TopSlice(sorted_server_list)[idx][2]) # None
    /\ pinged' = Append(pinged, idx)
    /\ cs_pc' = "raised"
    /\ cs_error' = "connect"
    /\ UNCHANGED <<dir_conn, location, list_requested, sorted_server_list, idx,
                   best_server, probe_conn, probed, cs_result>>
    /\ UNCHANGED <<engineVars, pingVars, batchVars, runVars>>

\* lines 174-193, 253-254: the five round trips, and the comparison
CsProbe ==
    /\ cs_pc = "ping"
    /\ LET server_host == MatchHost(TopSlice(sorted_server_list)[idx][2])
           latency == PingValue(net[server_host])
       IN  IF PingRaises(net[server_host])
           THEN /\ cs_pc' = "raised"
                /\ cs_error' = "ValueError"
                /\ UNCHANGED <<probe_conn, probed, best_server, idx>>
           ELSE /\ probe_conn' = "closed"
                /\ probed' = Append(probed, <<idx, server_host, latency>>)
                /\ best_server' = IF Better(latency, best_server)
                                  THEN <<latency, server_host>>
                                  ELSE best_server
                /\ idx' = idx + 1
                /\ cs_pc' = "probe"
                /\ UNCHANGED cs_error
    /\ UNCHANGED <<dir_conn, location, list_requested, sorted_server_list, pinged,
                   cs_result>>
    /\ UNCHANGED <<engineVars, pingVars, batchVars, runVars>>

\* lines 255-258
CsFinish ==
    /\ cs_pc = "probe"
    /\ idx > Len(TopSlice(sorted_server_list))
    /\ IF Falsy(best_server[2])
       THEN cs_pc' = "raised" /\ cs_error' = "noserver" /\ UNCHANGED cs_result
       ELSE cs_pc' = "returned" /\ cs_result' = best_server[2] /\ UNCHANGED cs_error
    /\ UNCHANGED <<dir_conn, location, list_requested, sorted_server_list, idx,
                   best_server, probe_conn, pinged, probed>>
    /\ UNCHANGED <<engineVars, pingVars, batchVars, runVars>>

(***************************************************************************)
(* SpeedTest.ping                                                          *)
(***************************************************************************)
\* lines 170-171, 61-65: the server given, else self.host
PingStart ==
    /\ p_pc = "start"
    /\ IF ~Falsy(p_server)
       THEN p_pc' = "connect" /\ UNCHANGED <<p_server, engineVars, csVars>>
       ELSE IF ~Falsy(host)
            THEN /\ p_server' = host
                 /\ host_reads' = host_reads \cup {host}
                 /\ p_pc' = "connect"
                 /\ UNCHANGED <<host, net, selections, runs, csVars>>
            ELSE /\ CsCall
                 /\ p_pc' = "host"
                 /\ UNCHANGED <<p_server, host, net, runs, host_reads>>
    /\ UNCHANGED <<p_conn, times, worst, p_result, p_error, batchVars, runVars>>

\* lines 64-65, 171: chooseserver has ended
PingHost ==
    /\ p_pc = "host"
    /\ \/ /\ cs_pc = "returned"
          /\ host' = cs_result
          /\ host_reads' = host_reads \cup {cs_result}
          /\ p_server' = cs_result
          /\ p_pc' = "connect"
          /\ UNCHANGED p_error
       \/ /\ cs_pc = "raised"
          /\ p_pc' = "raised"
          /\ p_error' = cs_error
          /\ UNCHANGED <<host, host_reads, p_server>>
    /\ CsLeave
    /\ UNCHANGED <<net, selections, runs, p_conn, times, worst, p_result,
                   batchVars, runVars>>

\* lines 173-175
PingConnect ==
    /\ p_pc = "connect"
    /\ p_server \in Hosts
    /\ p_conn' = "open"
    /\ times' = <<>>
    /\ worst' = 0
    /\ p_pc' = "loop"
    /\ UNCHANGED <<p_server, p_result, p_error, engineVars, csVars, batchVars, runVars>>

\* lines 173, 79-80: connect raises (always so for a server that is None)
PingConnectFail ==
    /\ p_pc = "connect"
    /\ p_pc' = "raised"
    /\ p_error' = "connect"
    /\ UNCHANGED <<p_server, p_conn, times, worst, p_result, engineVars, csVars, batchVars, runVars>>

\* lines 176-188: one round trip
PingSample ==
    /\ p_pc = "loop"
    /\ Len(times) < RANGE_PING
    /\ LET total_ms == net[p_server][Len(times) + 1]
       IN  /\ times' = Append(times, total_ms)
           /\ worst' = PingWorst(worst, total_ms)
    /\ UNCHANGED <<p_pc, p_server, p_conn, p_result, p_error, engineVars, csVars, batchVars, runVars>>

\* lines 189-193
PingFinish ==
    /\ p_pc = "loop"
    /\ Len(times) = RANGE_PING
    /\ IF Contains(times, worst)
       THEN /\ times' = ListRemove(times, worst)
            /\ p_result' = <<PingTotal(times, worst)>>
            /\ p_conn' = "closed"
            /\ p_pc' = "done"
            /\ UNCHANGED p_error
       ELSE /\ p_pc' = "raised"
            /\ p_error' = "ValueError"
            /\ UNCHANGED <<times, p_result, p_conn>>
    /\ UNCHANGED <<p_server, worst, engineVars, csVars, batchVars, runVars>>

PingNext ==
    \/ PingStart
    \/ PingConnect
    \/ PingConnectFail
    \/ PingSample
    \/ PingFinish

\* ping(server) and ping() on an engine with a pinned host
PingInit ==
    /\ host = "h2"
    /\ \E row \in [1..RANGE_PING -> 0..MaxSample] : net = [h \in Hosts |-> row]
    /\ selections = 0
    /\ runs = 2
    /\ host_reads = {}
    /\ BatchIdle
    /\ RunIdle
    /\ p_pc = "start" /\ p_server \in {None, "h1"} /\ p_conn = "none"
    /\ times = <<>> /\ worst = 0 /\ p_result = NoValue /\ p_error = None
    /\ CsIdle

SpecPing == PingInit /\ [][PingNext]_vars

ChooseNext ==
    \/ CsConnect
    \/ CsConnectFail
    \/ CsConfig
    \/ CsServers
    \/ CsInsert(MaxServers)
    \/ CsRanked
    \/ CsSkip
    \/ CsProbeConnect
    \/ CsProbeConnectFail
    \/ CsProbe
    \/ CsFinish

\* chooseserver() called on an engine without a host
ChooseInit ==
    /\ host = None
    /\ net \in NetProfiles
    /\ selections = 1
    /\ runs = 2
    /\ host_reads = {}
    /\ PingIdle
    /\ BatchIdle
    /\ RunIdle
    /\ cs_pc = "start" /\ dir_conn = "none" /\ location = NoLocation
    /\ list_requested = FALSE /\ sorted_server_list = <<>>
    /\ idx = 0 /\ best_server = <<NO_LATENCY, "">> /\ probe_conn = "none"
    /\ pinged = <<>> /\ probed = <<>> /\ cs_result = None /\ cs_error = None

SpecChoose == ChooseInit /\ [][ChooseNext]_vars

(***************************************************************************)
(* SpeedTest.download and SpeedTest.upload: one batch.                     *)
(***************************************************************************)
DOWNLOAD_FILES == << "/speedtest/random350x350.jpg",
                     "/speedtest/random500x500.jpg",
                     "/speedtest/random1500x1500.jpg" >>

UPLOAD_FILES == <<132884, 493638>>

NItems(kind) == IF kind = "download" THEN Len(DOWNLOAD_FILES) ELSE Len(UPLOAD_FILES)

\* the bytes the server holds for the three download files
BodySize == <<3, 5, 15>>

\* len(urlencode({'content0': <size alphanumerics>})): 'content0=' and the text
PostLen(size) == Len("content0=") + size

\* what one worker moves for an item when nothing is lost
Nominal(kind, i) == IF kind = "download" THEN BodySize[i] ELSE PostLen(UPLOAD_FILES[i])

\* line 88: len(response.read())
downloaded(body_len) == body_len

\* line 130: int(reply.split('=')[1]); the reply is modelled already split
uploaded_sent(data_len, reply) == data_len

uploaded(data_len, reply) == reply[2]

\* lines 107 and 156: the threads the coordinator joins, of n started
JoinFirstOnly(n) == 1

JoinCount(n) == n

\* lines 117 and 166: total * 8000 / total_ms is a float; the model keeps the
\* two operands
Throughput(bytes, ms) == [bytes |-> bytes, ms |-> ms]

\* every worker on the first connection
FirstConnection(run) == 1

\* lines 102, 153: connections[run], for the run counted from 1
ConnectionOfRun(run) == run

\* lines 99-104, 151-153: a Thread object; attr is its downloaded or uploaded
\* attribute and writers the workers that have set it
Thread(i, run) ==
    [item |-> i, conn |-> ConnectionOfRun(run), state |-> "running",
     attr |-> NoValue, writers |-> {}]

\* lines 87, 129: currentThread() in the worker of thread r
currentThread(r) == r

\* a join that returns at once
NotAwaited(t) == TRUE

\* a join that never returns
JoinBlocks(t) == FALSE

\* lines 108, 157: thread.join() returns when the thread has ended
Joined(t) == t.state # "running"

\* a call of download or upload
BatchCall(kind) ==
    /\ b_pc' = "open" /\ b_kind' = kind /\ b_server' = None /\ connections' = <<>>
    /\ timer' = "unset" /\ elapsed_ms' = 0 /\ item' = 0 /\ threads' = <<>>
    /\ join_idx' = 0 /\ total' = 0 /\ b_result' = NoValue /\ b_error' = None
    /\ started' = [i \in 1..NItems(kind) |-> 0]
    /\ ended' = [i \in 1..NItems(kind) |-> 0]
    /\ reported' = 0 /\ uniform' = TRUE

\* lines 94-95, 135-136, 61-65: self.host for the next connection
BatchGetHost ==
    /\ b_pc = "open"
    /\ Len(connections) < runs
    /\ IF ~Falsy(host)
       THEN /\ b_server' = host
            /\ host_reads' = host_reads \cup {host}
            /\ b_pc' = "connect"
            /\ UNCHANGED <<host, net, selections, runs, csVars>>
       ELSE /\ CsCall
            /\ b_pc' = "host"
            /\ UNCHANGED <<b_server, host, net, runs, host_reads>>
    /\ UNCHANGED <<b_kind, connections, timer, elapsed_ms, item, threads, join_idx,
                   total, b_result, b_error, started, ended, reported, uniform>>
    /\ UNCHANGED <<pingVars, runVars>>

\* lines 64-65: chooseserver has ended
BatchHost ==
    /\ b_pc = "host"
    /\ \/ /\ cs_pc = "returned"
          /\ host' = cs_result
          /\ host_reads' = host_reads \cup {cs_result}
          /\ b_server' = cs_result
          /\ b_pc' = "connect"
          /\ UNCHANGED b_error
       \/ /\ cs_pc = "raised"
          /\ b_pc' = "raised"
          /\ b_error' = cs_error
          /\ UNCHANGED <<host, host_reads, b_server>>
    /\ CsLeave
    /\ UNCHANGED <<net, selections, runs>>
    /\ UNCHANGED <<b_kind, connections, timer, elapsed_ms, item, threads, join_idx,
                   total, b_result, started, ended, reported, uniform>>
    /\ UNCHANGED <<pingVars, runVars>>

\* lines 95, 136: connect
BatchConnect ==
    /\ b_pc = "connect"
    /\ b_server \in Hosts
    /\ connections' = Append(connections, "open")
    /\ b_pc' = "open"
    /\ UNCHANGED <<b_kind, b_server, timer, elapsed_ms, item, threads, join_idx,
                   total, b_result, b_error, started, ended, reported, uniform>>
    /\ UNCHANGED <<engineVars, pingVars, csVars, runVars>>

\* lines 95, 136, 79-80: connect raises (always so for a host that is None)
BatchConnectFail ==
    /\ b_pc = "connect"
    /\ b_pc' = "raised"
    /\ b_error' = "connect"
    /\ UNCHANGED <<b_kind, b_server, connections, timer, elapsed_ms, item, threads,
                   join_idx, total, b_result, started, ended, reported, uniform>>
    /\ UNCHANGED <<engineVars, pingVars, csVars, runVars>>

\* a loop over the runs that is left after its first turn
FirstOpened(n, r) == n >= 1

\* lines 94-95, 135-136: range(self.runs) is exhausted
AllOpened(n, r) == n = r

\* lines 96-98, 138-149: the connections are open; time() and the first item
BatchTimerStart ==
    /\ b_pc = "open"
    /\ AllOpened(Len(connections), runs)
    /\ timer' = "running"
    /\ item' = 1
    /\ threads' = <<>>
    /\ b_pc' = "spawn"
    /\ UNCHANGED <<b_kind, b_server, connections, elapsed_ms, join_idx, total,
                   b_result, b_error, started, ended, reported, uniform>>
    /\ UNCHANGED <<engineVars, pingVars, csVars, runVars>>

\* lines 99-106, 150-155: one Thread is created and started
BatchSpawn ==
    /\ b_pc = "spawn"
    /\ Len(threads) < runs
    /\ threads' = Append(threads, Thread(item, Len(threads) + 1))
    /\ started' = [started EXCEPT ![item] = @ + 1]
    /\ IF Len(threads) + 1 = runs
       THEN b_pc' = "join" /\ join_idx' = 1
       ELSE UNCHANGED <<b_pc, join_idx>>
    /\ UNCHANGED <<b_kind, b_server, connections, timer, elapsed_ms, item, total,
                   b_result, b_error, ended, reported, uniform>>
    /\ UNCHANGED <<engineVars, pingVars, csVars, runVars>>

\* lines 83-88, 120-130: a worker's request is answered, `lost` bytes short
WorkerFinish(shortfalls) ==
    /\ \E r \in DOMAIN threads : \E lost \in shortfalls :
          /\ threads[r].state = "running"
          /\ LET i == threads[r].item
                 received == Nominal(b_kind, i) - lost
                 count == IF b_kind = "download"
                          THEN downloaded(received)
                          ELSE uploaded(Nominal(b_kind, i), <<"size", received>>)
                 self_thread == currentThread(r)
             IN  /\ threads' = [threads EXCEPT ![r].state = "finished",
                                               ![self_thread].attr = <<count>>,
                                               ![self_thread].writers = @ \cup {r}]
                 /\ ended' = [ended EXCEPT ![i] = @ + 1]
                 /\ reported' = reported + received
                 /\ uniform' = (uniform /\ lost = 0)
    /\ UNCHANGED <<b_pc, b_kind, b_server, connections, timer, elapsed_ms, item,
                   join_idx, total, b_result, b_error, started>>
    /\ UNCHANGED <<engineVars, pingVars, csVars, runVars>>

\* lines 85-88, 123-130: a worker's request or read raises; the thread ends
\* without its attribute
WorkerFail ==
    /\ \E r \in DOMAIN threads :
          /\ threads[r].state = "running"
          /\ threads' = [threads EXCEPT ![r].state = "failed"]
          /\ ended' = [ended EXCEPT ![threads[r].item] = @ + 1]
    /\ UNCHANGED <<b_pc, b_kind, b_server, connections, timer, elapsed_ms, item,
                   join_idx, total, b_result, b_error, started, reported, uniform>>
    /\ UNCHANGED <<engineVars, pingVars, csVars, runVars>>

\* lines 107-109, 156-160: join returns; the thread's attribute is read
BatchJoin ==
    /\ b_pc = "join"
    /\ join_idx <= JoinCount(Len(threads))
    /\ Joined(threads[join_idx])
    /\ IF threads[join_idx].attr = NoValue
       THEN /\ b_pc' = "raised"
            /\ b_error' = "AttributeError"
            /\ UNCHANGED <<total, join_idx>>
       ELSE /\ total' = total + threads[join_idx].attr[1]
            /\ join_idx' = join_idx + 1
            /\ UNCHANGED <<b_pc, b_error>>
    /\ UNCHANGED <<b_kind, b_server, connections, timer, elapsed_ms, item, threads,
                   b_result, started, ended, reported, uniform>>
    /\ UNCHANGED <<engineVars, pingVars, csVars, runVars>>

\* lines 97-98, 148-149: the next item
BatchNextItem ==
    /\ b_pc = "join"
    /\ join_idx > JoinCount(Len(threads))
    /\ item < NItems(b_kind)
    /\ item' = item + 1
    /\ threads' = <<>>
    /\ b_pc' = "spawn"
    /\ UNCHANGED <<b_kind, b_server, connections, timer, elapsed_ms, join_idx,
                   total, b_result, b_error, started, ended, reported, uniform>>
    /\ UNCHANGED <<engineVars, pingVars, csVars, runVars>>

\* lines 112, 161: time() after the last item
BatchTimerStop(elapsed) ==
    /\ b_pc = "join"
    /\ join_idx > JoinCount(Len(threads))
    /\ item = NItems(b_kind)
    /\ timer' = "stopped"
    /\ \E ms \in elapsed : elapsed_ms' = ms
    /\ b_pc' = "close"
    /\ UNCHANGED <<b_kind, b_server, connections, item, threads, join_idx, total,
                   b_result, b_error, started, ended, reported, uniform>>
    /\ UNCHANGED <<engineVars, pingVars, csVars, runVars>>

\* lines 113-114, 162-163: the next connection is closed
BatchClose ==
    /\ b_pc = "close"
    /\ \E c \in DOMAIN connections :
          /\ connections[c] = "open"
          /\ \A d \in 1..(c - 1) : connections[d] = "closed"
          /\ connections' = [connections EXCEPT ![c] = "closed"]
    /\ UNCHANGED <<b_pc, b_kind, b_server, timer, elapsed_ms, item, threads,
                   join_idx, total, b_result, b_error, started, ended, reported,
                   uniform>>
    /\ UNCHANGED <<engineVars, pingVars, csVars, runVars>>

\* lines 115-117, 164-166
BatchReturn ==
    /\ b_pc = "close"
    /\ \A c \in DOMAIN connections : connections[c] = "closed"
    /\ b_result' = <<Throughput(total, elapsed_ms)>>
    /\ b_pc' = "done"
    /\ UNCHANGED <<b_kind, b_server, connections, timer, elapsed_ms, item, threads,
                   join_idx, total, b_error, started, ended, reported, uniform>>
    /\ UNCHANGED <<engineVars, pingVars, csVars, runVars>>

\* bytes a response may fall short of the full body, and elapsed milliseconds
Shortfalls == {0, 1}

ElapsedMs == {1, 2}

BatchNext ==
    \/ BatchGetHost
    \/ BatchConnect
    \/ BatchConnectFail
    \/ BatchTimerStart
    \/ BatchSpawn
    \/ WorkerFinish(Shortfalls)
    \/ WorkerFail
    \/ BatchJoin
    \/ BatchNextItem
    \/ BatchTimerStop(ElapsedMs)
    \/ BatchClose
    \/ BatchReturn

\* download() or upload() on an engine with a pinned host
BatchInit ==
    /\ host = "h1"
    /\ net \in {[h \in Hosts |-> <<1, 1, 1, 1, 1>>]}
    /\ selections = 0
    /\ runs \in 1..MaxRuns
    /\ host_reads = {}
    /\ PingIdle
    /\ CsIdle
    /\ RunIdle
    /\ b_kind \in {"download", "upload"}
    /\ b_pc = "open" /\ b_server = None /\ connections = <<>>
    /\ timer = "unset" /\ elapsed_ms = 0 /\ item = 0 /\ threads = <<>>
    /\ join_idx = 0 /\ total = 0 /\ b_result = NoValue /\ b_error = None
    /\ started = [i \in 1..NItems(b_kind) |-> 0]
    /\ ended = [i \in 1..NItems(b_kind) |-> 0]
    /\ reported = 0 /\ uniform = TRUE

SpecBatch == BatchInit /\ [][BatchNext]_vars

\* the steps of the thread that called download or upload, when no network
\* call fails
CoordinatorStep ==
    \/ BatchGetHost
    \/ BatchConnect
    \/ BatchTimerStart
    \/ BatchSpawn
    \/ BatchJoin
    \/ BatchNextItem
    \/ BatchTimerStop(ElapsedMs)
    \/ BatchClose
    \/ BatchReturn

\* the steps of the worker threads, when no network call fails
WorkerStep == WorkerFinish(Shortfalls)

BatchNextOk == CoordinatorStep \/ WorkerStep

\* A batch on a network that answers every call.  The calling thread and
\* the started worker threads are threads of the interpreter, each of which
\* goes on running while it has a step to take.
SpecBatchFair ==
    /\ BatchInit
    /\ [][BatchNextOk]_vars
    /\ WF_vars(CoordinatorStep)
    /\ WF_vars(WorkerStep)

(***************************************************************************)
(* perform_speedtest, from the construction of the engine (line 377) on.   *)
(***************************************************************************)
\* line 378-380: (mask, name, method)
methods == << [mask |-> 4, name |-> "ping"],
              [mask |-> 1, name |-> "download"],
              [mask |-> 2, name |-> "upload"] >>

\* a test of the mode by magnitude, where line 386 tests one bit
MaskReached(m, mask) == m >= mask

\* line 386: opts.mode & mask == mask, for a mask of one bit
HasMask(m, mask) == (m \div mask) % 2 = 1

\* stats[name] = val
Put(d, name, val) == [k \in DOMAIN d \cup {name} |-> IF k = name THEN val ELSE d[k]]

PingCall ==
    /\ p_pc' = "start" /\ p_server' = None /\ p_conn' = "none"
    /\ times' = <<>> /\ worst' = 0 /\ p_result' = NoValue /\ p_error' = None

PingLeave ==
    /\ p_pc' = "idle" /\ p_server' = None /\ p_conn' = "none"
    /\ times' = <<>> /\ worst' = 0 /\ p_result' = NoValue /\ p_error' = None

BatchLeave ==
    /\ b_pc' = "idle" /\ b_kind' = None /\ b_server' = None /\ connections' = <<>>
    /\ timer' = "unset" /\ elapsed_ms' = 0 /\ item' = 0 /\ threads' = <<>>
    /\ join_idx' = 0 /\ total' = 0 /\ b_result' = NoValue /\ b_error' = None
    /\ started' = <<>> /\ ended' = <<>> /\ reported' = 0 /\ uniform' = TRUE

\* line 381, 61-65: stats['server'] = speedtest.host
RunServer ==
    /\ ps_pc = "server"
    /\ IF ~Falsy(host)
       THEN /\ stats' = Put(stats, "server", host)
            /\ host_reads' = host_reads \cup {host}
            /\ meth' = 1
            /\ ps_pc' = "methods"
            /\ UNCHANGED <<host, net, selections, runs, csVars>>
       ELSE /\ CsCall
            /\ ps_pc' = "host"
            /\ UNCHANGED <<stats, meth, host, net, runs, host_reads>>
    /\ UNCHANGED <<mainVars, called, mode, pinned, ps_error, pingVars, batchVars>>

\* lines 64-65, 381: chooseserver has ended
RunHost ==
    /\ ps_pc = "host"
    /\ \/ /\ cs_pc = "returned"
          /\ host' = cs_result
          /\ host_reads' = host_reads \cup {cs_result}
          /\ stats' = Put(stats, "server", cs_result)
          /\ meth' = 1
          /\ ps_pc' = "methods"
          /\ UNCHANGED ps_error
       \/ /\ cs_pc = "raised"
          /\ ps_pc' = "raised"
          /\ ps_error' = cs_error
          /\ UNCHANGED <<host, host_reads, stats, meth>>
    /\ CsLeave
    /\ UNCHANGED <<net, selections, runs, mainVars, called, mode, pinned, pingVars, batchVars>>

\* lines 385-386: a method the mode does not ask for
RunSkip ==
    /\ ps_pc = "methods"
    /\ meth <= Len(methods)
    /\ ~HasMask(mode, methods[meth].mask)
    /\ meth' = meth + 1
    /\ UNCHANGED <<mainVars, called, ps_pc, mode, pinned, stats, ps_error>>
    /\ UNCHANGED <<engineVars, pingVars, csVars, batchVars>>

\* lines 386-389: val = method() is called
RunCall ==
    /\ ps_pc = "methods"
    /\ meth <= Len(methods)
    /\ HasMask(mode, methods[meth].mask)
    /\ IF methods[meth].name = "ping"
       THEN PingCall /\ UNCHANGED batchVars
       ELSE BatchCall(methods[meth].name) /\ UNCHANGED pingVars
    /\ ps_pc' = "calling"
    /\ called' = Append(called, methods[meth].name)
    /\ UNCHANGED <<mainVars, mode, pinned, stats, meth, ps_error>>
    /\ UNCHANGED <<engineVars, csVars>>

\* lines 389-390: the method has returned, or raised
RunReturn ==
    /\ ps_pc = "calling"
    /\ IF methods[meth].name = "ping"
       THEN /\ \/ /\ p_pc = "done"
                  /\ stats' = Put(stats, "ping", p_result)
                  /\ meth' = meth + 1
                  /\ ps_pc' = "methods"
                  /\ PingLeave
                  /\ UNCHANGED ps_error
               \/ /\ p_pc = "raised"
                  /\ ps_pc' = "raised"
                  /\ ps_error' = p_error
                  /\ UNCHANGED <<stats, meth, pingVars>>
            /\ UNCHANGED batchVars
       ELSE /\ \/ /\ b_pc = "done"
                  /\ stats' = Put(stats, methods[meth].name, b_result)
                  /\ meth' = meth + 1
                  /\ ps_pc' = "methods"
                  /\ BatchLeave
                  /\ UNCHANGED ps_error
               \/ /\ b_pc = "raised"
                  /\ ps_pc' = "raised"
                  /\ ps_error' = b_error
                  /\ UNCHANGED <<stats, meth, batchVars>>
            /\ UNCHANGED pingVars
    /\ UNCHANGED <<mainVars, called, mode, pinned>>
    /\ UNCHANGED <<engineVars, csVars>>

\* line 401: return stats
RunDone ==
    /\ ps_pc = "methods"
    /\ meth > Len(methods)
    /\ ps_pc' = "done"
    /\ UNCHANGED <<mainVars, called, mode, pinned, stats, meth, ps_error>>
    /\ UNCHANGED <<engineVars, pingVars, csVars, batchVars>>

\* lines 410-411: perform_speedtest(opts) returned; main falls off its end
MainReturn ==
    /\ main_pc = "try"
    /\ ps_pc = "done"
    /\ main_pc' = "exited"
    /\ exit_status' = <<0>>
    /\ UNCHANGED <<logged, prettyVars, ps_pc, mode, pinned, stats, meth, ps_error, called>>
    /\ UNCHANGED <<engineVars, pingVars, csVars, batchVars>>

\* lines 412-416: except Exception logs the error; main falls off its end
MainExcept ==
    /\ main_pc = "try"
    /\ ps_pc = "raised"
    /\ logged' = ps_error
    /\ main_pc' = "exited"
    /\ exit_status' = <<0>>
    /\ UNCHANGED <<prettyVars, ps_pc, mode, pinned, stats, meth, ps_error, called>>
    /\ UNCHANGED <<engineVars, pingVars, csVars, batchVars>>

\* the networks of a whole run
RunNetProfiles ==
    { [h \in Hosts |-> <<1, 1, 1, 1, 1>>],
      [h \in Hosts |-> IF h = "h1" THEN <<2, 1, 3, 1, 1>> ELSE <<1, 1, 1, 1, 1>>],
      [h \in Hosts |-> <<1000, 1000, 1000, 1000, 1000>>] }

RunNext ==
    \/ RunServer
    \/ RunHost
    \/ RunSkip
    \/ RunCall
    \/ RunReturn
    \/ RunDone
    \/ MainReturn
    \/ MainExcept
    \/ CsConnect
    \/ CsConnectFail
    \/ CsConfig
    \/ CsServers
    \/ CsInsert(RunMaxServers)
    \/ CsRanked
    \/ CsSkip
    \/ CsProbeConnect
    \/ CsProbeConnectFail
    \/ CsProbe
    \/ CsFinish
    \/ PingStart
    \/ PingHost
    \/ PingConnect
    \/ PingConnectFail
    \/ PingSample
    \/ PingFinish
    \/ BatchGetHost
    \/ BatchHost
    \/ BatchConnect
    \/ BatchConnectFail
    \/ BatchTimerStart
    \/ BatchSpawn
    \/ WorkerFinish({0})
    \/ WorkerFail
    \/ BatchJoin
    \/ BatchNextItem
    \/ BatchTimerStop({1})
    \/ BatchClose
    \/ BatchReturn

\* main() calling perform_speedtest(opts) with opts.server given or not,
\* opts.mode in 1..7
RunInit ==
    /\ pinned \in {None, "h1"}
    /\ host = pinned
    /\ net \in RunNetProfiles
    /\ selections = 0
    /\ runs \in 1..MaxRuns
    /\ host_reads = {}
    /\ PingIdle
    /\ CsIdle
    /\ BatchIdle
    /\ ps_pc = "server"
    /\ mode \in 1..7
    /\ stats = [k \in {"server"} |-> "None - no valid format"]
    /\ meth = 0
    /\ ps_error = None
    /\ called = <<>>
    /\ main_pc = "try"
    /\ exit_status = NoValue
    /\ logged = None
    /\ PrettyIdle

SpecRun == RunInit /\ [][RunNext]_vars

(***************************************************************************)
(* Properties of ping.                                                     *)
(***************************************************************************)
Occurrences(s, x) == Cardinality({i \in DOMAIN s : s[i] = x})

\* C1: the value ping returns is (sum of the 5 samples - their maximum) * 250,
\* wherever the maximum occurs and however often: one occurrence is removed
\* and 4 samples contribute.
C1_PingDropsOneMax ==
    p_pc = "done" =>
        /\ p_result = <<(SeqSum(net[p_server]) - SeqMax(net[p_server])) * 250>>
        /\ Len(times) = RANGE_PING - 1

\* ping returned for samples whose maximum occurs twice or more, last included,
\* and not as the first sample
C1_Witness ==
    /\ p_pc = "done"
    /\ Occurrences(net[p_server], SeqMax(net[p_server])) >= 2
    /\ net[p_server][RANGE_PING] = SeqMax(net[p_server])
    /\ net[p_server][1] < SeqMax(net[p_server])

(***************************************************************************)
(* Properties of chooseserver.                                             *)
(***************************************************************************)
\* chooseserver ended by its own return or raise, not by a failed connection
CsEnded == cs_pc = "returned" \/ (cs_pc = "raised" /\ cs_error = "noserver")

\* the host of the first probe with the lowest latency
FirstMinHost(pr) ==
    LET i == CHOOSE k \in DOMAIN pr :
                 /\ \A j \in DOMAIN pr : pr[k][3] <= pr[j][3]
                 /\ \A j \in 1..(k - 1) : pr[j][3] > pr[k][3]
    IN  pr[i][2]

Positions(s) == {s[i] : i \in DOMAIN s}

Matching(a) == {p \in DOMAIN a : MatchHost(a[p][2]) # None}

NearerCount(a, p) == Cardinality({j \in DOMAIN a : a[j][1] < a[p][1]})

\* C2: when a candidate was probed, chooseserver returns the probed host with the
\* lowest latency, the first probed of them on ties.
C2_ReturnsLowestLatency ==
    (CsEnded /\ probed # <<>>) =>
        (cs_pc = "returned" /\ cs_result = FirstMinHost(probed))

\* C3: ping is invoked at most 10 times in one run of chooseserver, and only on
\* candidates among the 10 smallest by distance.
C3_AtMostTenPings ==
    /\ Len(pinged) <= TOP_N
    /\ \A k \in DOMAIN pinged : NearerCount(sorted_server_list, pinged[k]) < TOP_N

\* chooseserver ended after 10 pings on a list of more than 10 candidates
C3_Witness ==
    /\ CsEnded
    /\ Len(pinged) = TOP_N
    /\ Len(sorted_server_list) > TOP_N

\* C4 as claimed: with fewer than 10 matching candidates in the list, every
\* matching candidate is probed.
C4_AllMatchingProbed ==
    (CsEnded /\ list_requested
       /\ Cardinality(Matching(sorted_server_list)) < TOP_N) =>
        Matching(sorted_server_list) \subseteq Positions(pinged)

\* C4 as amended: the candidates probed are the matching ones among the 10
\* nearest; a candidate that does not match is not probed but keeps its place
\* among the 10.
C4_MatchingOfTopProbed ==
    (CsEnded /\ list_requested) =>
        Positions(pinged) = Matching(TopSlice(sorted_server_list))

\* chooseserver ended on 11 candidates of which fewer than 10 match: one of the
\* 10 nearest was skipped, one was probed, and the 11th matches
C4_Witness ==
    /\ CsEnded
    /\ Len(sorted_server_list) = TOP_N + 1
    /\ Cardinality(Matching(sorted_server_list)) < TOP_N
    /\ (TOP_N + 1) \in Matching(sorted_server_list)
    /\ pinged # <<>>
    /\ \E p \in 1..TOP_N : p \notin Matching(sorted_server_list)

\* C5: the no-server error ends chooseserver when the list is empty or none of the
\* 10 nearest matches, and only when no candidate was probed.
C5_NoServerError ==
    /\ (CsEnded /\ list_requested /\ Matching(TopSlice(sorted_server_list)) = {}) =>
           (cs_pc = "raised" /\ cs_error = "noserver" /\ cs_result = None)
    /\ (cs_pc = "raised" /\ cs_error = "noserver") => pinged = <<>>

\* C6: without the client attributes chooseserver raises the selection error,
\* with no server list requested and no candidate probed.
C6_MissingLocationRaises ==
    (cs_pc \in {"returned", "raised"} /\ dir_conn = "open" /\ location = NoLocation) =>
        /\ cs_pc = "raised" /\ cs_error = "noserver"
        /\ ~list_requested /\ pinged = <<>>

\* the positions of the ranked list that the probing loop has taken up
Considered == IF cs_pc = "ping" THEN 1..idx ELSE 1..(idx - 1)

\* C15: the ranked list of chooseserver is in ascending order of distance, a
\* nearer candidate before a farther one; the candidates the probing loop
\* takes up are among the 10 of smallest distance, and when the loop has
\* run to its end they are all of these 10.
C15_RankedByDistance ==
    /\ \A i, j \in DOMAIN sorted_server_list :
          i < j => sorted_server_list[i][1] <= sorted_server_list[j][1]
    /\ \A k \in Considered :
          /\ k \in DOMAIN sorted_server_list
          /\ NearerCount(sorted_server_list, k) < TOP_N
    /\ (CsEnded /\ location # NoLocation) =>
          Cardinality(Considered) = Min2(TOP_N, Len(sorted_server_list))

\* the loop has run to its end over a list of more than 10 candidates at
\* three different distances
C15_Witness ==
    /\ CsEnded
    /\ Len(sorted_server_list) > TOP_N
    /\ Cardinality({sorted_server_list[i][1] : i \in DOMAIN sorted_server_list}) = 3
    /\ Cardinality(Considered) = TOP_N

(***************************************************************************)
(* Properties of a download or upload batch.                               *)
(***************************************************************************)
BatchEnded == b_pc \in {"done", "raised"}

\* C8: no worker of item k+1 starts before all `runs` workers of item k were
\* started and have terminated; the items are taken in list order.
C8_ItemBarrier ==
    \A k \in DOMAIN started :
        (k > 1 /\ started[k] > 0) => (started[k - 1] = runs /\ ended[k - 1] = runs)

\* the workers of the last item run, two or more per item
C8_Witness ==
    /\ runs >= 2
    /\ b_pc = "join"
    /\ item = NItems(b_kind)
    /\ \A r \in DOMAIN threads : threads[r].state = "running"

RECURSIVE NominalSum(_, _)
NominalSum(kind, n) == IF n = 0 THEN 0 ELSE Nominal(kind, n) + NominalSum(kind, n - 1)

\* C9: the total of a completed batch is the sum of the counts the workers'
\* responses carried (for an upload the echoed count, not the length sent), each
\* once; with every response complete it is runs * the sum of the items' sizes.
C9_TotalIsSumOfCounts ==
    b_pc = "done" =>
        /\ total = reported
        /\ b_result = <<Throughput(reported, elapsed_ms)>>
        /\ uniform => total = runs * NominalSum(b_kind, NItems(b_kind))

\* an upload by two or more workers completed, with an echoed count below the
\* length sent
C9_Witness ==
    /\ b_pc = "done"
    /\ b_kind = "upload"
    /\ runs >= 2
    /\ ~uniform

\* C10: when a worker's request or read fails, the batch ends with a
\* ConnectionError, starts no further item and returns no throughput.
C10_WorkerFailureIsConnectionError ==
    \A r \in DOMAIN threads :
        (BatchEnded /\ threads[r].state = "failed") =>
            /\ b_pc = "raised" /\ b_error = "connect"
            /\ b_result = NoValue
            /\ \A k \in DOMAIN started : k > threads[r].item => started[k] = 0

\* C16: the timed window of a batch starts when all `runs` connections are
\* open and no worker has started yet; it ends when every worker of every
\* item, the last one included, has been joined and no connection is closed
\* yet; one window spans all the items of the batch.
C16_TimedWindow ==
    /\ timer = "unset" =>
          /\ \A i \in DOMAIN started : started[i] = 0
          /\ \A c \in DOMAIN connections : connections[c] = "open"
          /\ b_pc \in {"open", "host", "connect", "raised"}
    /\ timer = "running" =>
          /\ Len(connections) = runs
          /\ \A c \in DOMAIN connections : connections[c] = "open"
          /\ b_pc \in {"spawn", "join", "raised"}
    /\ timer = "stopped" =>
          /\ Len(connections) = runs
          /\ \A i \in DOMAIN started : started[i] = runs /\ ended[i] = runs
          /\ item = NItems(b_kind) /\ join_idx = runs + 1
          /\ b_pc \in {"close", "done"}

\* the window of a download with two runs has ended; the first connection
\* is closed and the second still open
C16_Witness ==
    /\ b_kind = "download" /\ runs = 2
    /\ timer = "stopped"
    /\ connections = <<"closed", "open">>

\* C17: the result slot of a worker is written by that worker only; a slot
\* the coordinator has read, with a value or with the error of a missing
\* value, belongs to a worker that had ended; the slot of a running worker
\* holds nothing.
C17_OwnSlotReadAfterJoin ==
    /\ \A r \in DOMAIN threads :
          /\ threads[r].writers \subseteq {r}
          /\ threads[r].state = "running" => threads[r].attr = NoValue
          /\ threads[r].attr # NoValue => threads[r].writers = {r}
    /\ b_pc \in {"join", "raised"} =>
          \A k \in 1..(join_idx - 1) : threads[k].state = "finished"
    /\ b_error = "AttributeError" => threads[join_idx].state = "failed"

\* the first slot has been read while the worker of the second, started
\* alongside, is still running
C17_Witness ==
    /\ b_pc = "join" /\ join_idx = 2
    /\ Len(threads) = 2
    /\ threads[1].writers = {1}
    /\ threads[2].state = "running"
    /\ total > 0

\* C19: a batch opens `runs` connections, never more, and all of them before
\* any worker exists; two workers running at the same moment are on
\* different connections, and no worker of an earlier item is still running
\* when the workers of a later one are.
C19_OneWorkerPerConnection ==
    /\ Len(connections) <= runs
    /\ (threads # <<>> \/ b_pc = "done") => Len(connections) = runs
    /\ \A r \in DOMAIN threads : threads[r].conn \in DOMAIN connections
    /\ \A r, q \in DOMAIN threads :
          (r # q /\ threads[r].state = "running" /\ threads[q].state = "running")
              => threads[r].conn # threads[q].conn
    /\ \A i \in DOMAIN started : i < item => ended[i] = started[i]

\* the connections are in use a second time: two workers of the second item
\* are running, each on its own connection
C19_Witness ==
    /\ runs = 2 /\ item = 2
    /\ Len(threads) = 2
    /\ threads[1].state = "running" /\ threads[2].state = "running"
    /\ threads[1].conn = 1 /\ threads[2].conn = 2

\* C20: on a network that answers every call, a batch with runs >= 1
\* eventually returns a throughput value, exactly 3 * runs workers having
\* run for a download and exactly 2 * runs for an upload, each item once on
\* each connection, and every one of them joined.
C20_BatchCompletes ==
    <>( /\ b_pc = "done"
        /\ b_result # NoValue
        /\ b_kind = "download" => SeqSum(started) = 3 * runs
        /\ b_kind = "upload" => SeqSum(started) = 2 * runs
        /\ \A i \in DOMAIN started : started[i] = runs /\ ended[i] = runs
        /\ join_idx = runs + 1
        /\ \A r \in DOMAIN threads : threads[r].state = "finished" )

\* an upload with three runs has returned its throughput after six workers
C20_Witness ==
    /\ b_kind = "upload" /\ runs = 3
    /\ b_pc = "done"
    /\ b_result # NoValue
    /\ SeqSum(started) = 6
    /\ SeqSum(ended) = 6

\* C11: when the batch call has ended, by its return or by an error, every
\* connection it opened is closed and none of its workers is still running.
C11_ConnectionsClosedAtEnd ==
    BatchEnded =>
        /\ \A c \in DOMAIN connections : connections[c] = "closed"
        /\ \A r \in DOMAIN threads : threads[r].state # "running"

(***************************************************************************)
(* pretty_speed(speed), lines 419-426.  The speed is a non-negative number *)
(* written in base 1024: whole holds the digits of its integer part, the  *)
(* most significant first, and frac the digits after the point.  Dividing *)
(* by 1024 moves the point one digit to the left, which is exact for the  *)
(* binary floating-point number of the code as well.                      *)
(***************************************************************************)
MaxDigits == 6

KILO == 1024

\* line 421
units == <<"bps", "Kbps", "Mbps", "Gbps", "Tbps">>

\* the digits a speed is written with
PrettyDigits == {0, 1, KILO - 1}

\* the speeds pretty_speed is called with
Speeds ==
    { [whole |-> w, frac |-> <<>>] :
        w \in { d \in UNION { [1..n -> PrettyDigits] : n \in 1..MaxDigits } :
                  Len(d) > 1 => d[1] # 0 } }

\* line 423: speed >= 1024
AtLeastKilo(s) == Len(s.whole) >= 2

\* line 424: speed /= 1024
DivKilo(s) ==
    [whole |-> SubSeq(s.whole, 1, Len(s.whole) - 1),
     frac |-> <<s.whole[Len(s.whole)]>> \o s.frac]

\* line 426: '%0.2f' of a speed below 1024, as a count of hundredths; the
\* rounding looks at the first two digits after the point
Hundredths(s) ==
    LET d1 == IF Len(s.frac) >= 1 THEN s.frac[1] ELSE 0
        d2 == IF Len(s.frac) >= 2 THEN s.frac[2] ELSE 0
    IN  s.whole[1] * 100 + ((d1 * KILO + d2) * 100 + (KILO * KILO) \div 2) \div (KILO * KILO)

\* line 426: '%0.2f %s' % (speed, units[unit])
Format(s, u) == [number |-> Hundredths(s), unit |-> u]

\* lines 423-425: one turn of the while loop
PrettyLoop ==
    /\ pr_pc = "loop"
    /\ AtLeastKilo(speed)
    /\ speed' = DivKilo(speed)
    /\ unit' = unit + 1
    /\ UNCHANGED <<pr_pc, pr_result, pr_error>>
    /\ UNCHANGED <<main_pc, exit_status, logged, ps_pc, mode, pinned, stats, meth, ps_error, called>>
    /\ UNCHANGED <<engineVars, pingVars, csVars, batchVars>>

\* line 426: units[unit] exists (the list index unit counts from 0)
PrettyReturn ==
    /\ pr_pc = "loop"
    /\ ~AtLeastKilo(speed)
    /\ unit + 1 <= Len(units)
    /\ pr_result' = <<Format(speed, units[unit + 1])>>
    /\ pr_pc' = "done"
    /\ UNCHANGED <<speed, unit, pr_error>>
    /\ UNCHANGED <<main_pc, exit_status, logged, ps_pc, mode, pinned, stats, meth, ps_error, called>>
    /\ UNCHANGED <<engineVars, pingVars, csVars, batchVars>>

\* line 426: units[unit] with unit beyond the list raises IndexError
PrettyRaise ==
    /\ pr_pc = "loop"
    /\ ~AtLeastKilo(speed)
    /\ unit + 1 > Len(units)
    /\ pr_error' = "IndexError"
    /\ pr_pc' = "raised"
    /\ UNCHANGED <<speed, unit, pr_result>>
    /\ UNCHANGED <<main_pc, exit_status, logged, ps_pc, mode, pinned, stats, meth, ps_error, called>>
    /\ UNCHANGED <<engineVars, pingVars, csVars, batchVars>>

PrettyNext ==
    \/ PrettyLoop
    \/ PrettyReturn
    \/ PrettyRaise

\* pretty_speed(speed) is called: lines 420-422
PrettyInit ==
    /\ host = None
    /\ net \in {[h \in Hosts |-> <<1, 1, 1, 1, 1>>]}
    /\ selections = 0
    /\ runs = 2
    /\ host_reads = {}
    /\ PingIdle
    /\ CsIdle
    /\ BatchIdle
    /\ PerformIdle
    /\ pr_pc = "loop"
    /\ speed \in Speeds
    /\ unit = 0
    /\ pr_result = NoValue
    /\ pr_error = None

SpecPretty == PrettyInit /\ [][PrettyNext]_vars

(***************************************************************************)
(* Properties of perform_speedtest.                                        *)
(***************************************************************************)
\* the mode, read as a number in binary, has the bit of value b
BitIsSet(m, b) == m % (2 * b) >= b

\* the measurement names whose bit the mode has
Requested(m) ==
    (IF BitIsSet(m, 4) THEN {"ping"} ELSE {}) \cup
    (IF BitIsSet(m, 1) THEN {"download"} ELSE {}) \cup
    (IF BitIsSet(m, 2) THEN {"upload"} ELSE {})

\* C12: perform_speedtest calls a measurement only when the mode has its bit
\* (ping 4, download 1, upload 2) and never twice; ping and a transfer batch
\* are never in progress together; and when it returns, the measurements
\* called are exactly those requested and the record's keys are 'server'
\* and the requested names.
C12_ModeSelectsMeasurements ==
    /\ \A i \in DOMAIN called : called[i] \in Requested(mode)
    /\ \A i, j \in DOMAIN called : called[i] = called[j] => i = j
    /\ ~(p_pc # "idle" /\ b_pc # "idle")
    /\ ps_pc = "done" =>
          /\ {called[i] : i \in DOMAIN called} = Requested(mode)
          /\ DOMAIN stats = {"server"} \cup Requested(mode)

\* mode 5 has returned a record after ping and download, in that order
C12_Witness ==
    /\ ps_pc = "done"
    /\ mode = 5
    /\ called = <<"ping", "download">>
    /\ DOMAIN stats = {"server", "ping", "download"}

\* the number of divisions by 1024 that bring a speed below 1024
Divisions(s) == Len(s.whole) - 1

\* C13: pretty_speed returns a formatted result for every speed, and the
\* unit of the result is the entry of (bps, Kbps, Mbps, Gbps, Tbps) at the
\* number of divisions by 1024 made, or Tbps when more were made.
C13_PrettySpeedCapped ==
    pr_pc \in {"done", "raised"} =>
        /\ pr_pc = "done"
        /\ unit = Divisions([whole |-> speed.whole \o speed.frac, frac |-> <<>>])
        /\ pr_result[1].unit = units[Min2(unit, Len(units) - 1) + 1]

\* C18: when ping, chooseserver, download or upload has returned, every
\* connection it opened is closed, the directory connection and the probe
\* connections of chooseserver included; a probe connection is open only
\* while its one probe is in progress.
C18_ClosedOnReturn ==
    /\ p_pc = "done" => p_conn = "closed"
    /\ cs_pc = "returned" => (dir_conn # "open" /\ probe_conn # "open")
    /\ b_pc = "done" => \A c \in DOMAIN connections : connections[c] = "closed"
    /\ probe_conn = "open" => cs_pc \in {"ping", "raised"}

\* C14: when perform_speedtest has ended with an error, the process that
\* main runs ends with an exit status other than 0.
C14_FailureExitsNonZero ==
    (main_pc = "exited" /\ ps_pc = "raised") => exit_status # <<0>>

\* C7: within one run the host is resolved at most once: never when it is
\* pinned, else on the first access only; every later access returns the host
\* reported as stats['server'].
C7_HostResolvedOnce ==
    /\ selections <= 1
    /\ pinned # None => selections = 0
    /\ ps_pc \in {"methods", "calling", "done"} => host_reads = {stats["server"]}

====
